---- MODULE Spec2Model ----
(***************************************************************************)
(* A model of the multi-vendor shop of ecommerce_project: the database     *)
(* rows the cart, checkout, review, store and product handlers of          *)
(* src/ecommerce_project/ecommerce/views.py read and write, and one action *)
(* per request handler; and likewise the session cart, checkout, review    *)
(* and registration handlers of the minimal app, src/ecommerce/views.py.   *)
(*                                                                          *)
(* ecommerce_project/ecommerce/models.py is not among the sources; the few *)
(* model methods the handlers call (is_buyer, is_in_stock, get_total_price,*)
(* the quantity field's range, what a deletion takes along) are modelled   *)
(* from the specification and                                               *)
(* the handlers' use of them, and are marked so in the model map.          *)
(* Every product that has a row is active: no handler of views.py changes  *)
(* Product.is_active.                                                      *)
(***************************************************************************)
EXTENDS Integers, Sequences, FiniteSets, TLC

\* ------------------------------------------------------------------ bounds
\* the stock every product starts with, and the largest quantity a request asks for
MaxStock == 1
\* checkout creates no Order row beyond this many
MaxOrders == 2
\* the minimal app: the largest count of a product in a session cart
MaxCartCount == 2
\* the minimal app: product_detail saves no Review row beyond this many
MaxReviews == 2

\* ---------------------------------------------------------------- universe
Products == {"p1", "p2"}
Buyers == {"b1", "b2"}
Vendors == {"v1", "v2"}
BuyerSessions == {"s1", "s2"}
VendorSessions == {"sv"}
\* the session of the vendor who owns none of the first store's products
RivalSessions == {"sw"}
\* the buyer session that shops while the vendor edits
ShopperSessions == {"s1"}
\* a browser session nobody is logged in on
AnonymousSessions == {"sa"}
Sessions == BuyerSessions \cup VendorSessions \cup RivalSessions \cup AnonymousSessions
StoreIds == {"st1", "st2"}
StoreNames == {"n1", "n2"}
\* no Store row under the id / the store of a product that has no row
NoStore == [exists |-> FALSE, vendor |-> "none", name |-> "none"]
NoStoreId == "none"
Prices == {1, 2}
Stocks == 0..MaxStock
Quantities == 0..MaxStock
PositiveQuantities == 1..MaxStock
Addresses == {"a1"}
NoAddress == ""
Ratings == {1, 5}
Methods == {"GET", "POST"}
NoCart == [exists |-> FALSE, items |-> <<>>]
NoRequest == [op |-> "none", session |-> "none", result |-> "none"]
\* the minimal app's registration form: usernames, email addresses ("": the field
\* is not sent), passwords; NoUser: no User row under the username
Usernames == {"testuser", "newuser", "newuser2"}
Emails == {"e1", "e2"}
NoEmail == ""
Passwords == {"strongpassword123", "otherpassword456"}
NoUser == "none"

\* request.user of a session: the logged-in account
AnonymousUser == "anonymous"
request_user(s) ==
    CASE s = "s1" -> "b1" [] s = "s2" -> "b2" [] s = "sv" -> "v1" [] s = "sw" -> "v2"
      [] s = "sa" -> AnonymousUser

\* request.user.is_authenticated, which @login_required tests
is_authenticated(u) == u # AnonymousUser

\* User.is_buyer() / User.is_vendor(): the role tag of the account
is_buyer(u) == u \in Buyers
is_vendor(u) == u \in Vendors

VARIABLES
    stock,      \* Product.quantity_in_stock, per product
    price,      \* Product.price, per product
    carts,      \* session key -> whether its Cart row exists, and the CartItems in id order
    orders,     \* the Order rows in creation order, each with its OrderItems
    reviews,    \* the Review rows in creation order
    inflight,   \* session -> the checkout request in progress (concurrent runs)
    session_cart,   \* minimal app: request.session['cart'], product -> count (0: no key)
    simple_orders,  \* minimal app: the Order rows with their OrderItems
    simple_reviews, \* minimal app: the Review rows
    user_email,     \* minimal app: username -> the email of its User row; NoUser: no row
    session_login,  \* minimal app: session -> the username register() logged it in as
    stores,         \* store id -> the Store row: whether it exists, its vendor, its name
    product_store,  \* product -> the id of its store; NoStoreId: the product has no row
    resp        \* the request served last and its outcome

\* the rows of the minimal app (src/ecommerce), which the handlers of the full
\* app never touch, and the rows of the full app
simple_vars == <<session_cart, simple_orders, simple_reviews, user_email, session_login>>
auth_vars == <<user_email, session_login>>
catalog_vars == <<stores, product_store>>
shop_vars == <<stock, price, carts, orders, reviews, inflight, stores, product_store>>
vars == <<stock, price, carts, orders, reviews, inflight,
          session_cart, simple_orders, simple_reviews, user_email, session_login,
          stores, product_store, resp>>

\* the vendor owning a product's store (product.store.vendor)
store_vendor(p) == stores[product_store[p]].vendor

\* the Product row exists
product_exists(p) == product_store[p] # NoStoreId

\* the owner filter left out: any existing store or product is found
owned_store_unfiltered(st, u) == stores[st].exists
owned_product_unfiltered(p, u) == product_exists(p)

\* get_object_or_404(Store, id=store_id, vendor=request.user) finds the store
owned_store(st, u) == stores[st].exists /\ stores[st].vendor = u

\* get_object_or_404(Product, id=product_id, store__vendor=request.user) finds it
owned_product(p, u) == product_exists(p) /\ store_vendor(p) = u

Idle == [at |-> "idle"]

\* ----------------------------------------------------------------- helpers
RECURSIVE SeqSum(_)
SeqSum(s) == IF s = <<>> THEN 0 ELSE Head(s) + SeqSum(Tail(s))

SeqMap(f(_), s) == [i \in 1..Len(s) |-> f(s[i])]

RemoveAt(s, i) == SubSeq(s, 1, i - 1) \o SubSeq(s, i + 1, Len(s))

\* index of product p's line in a cart's items, 0 when there is none
ItemIndex(items, p) ==
    IF \E i \in 1..Len(items) : items[i].product = p
    THEN CHOOSE i \in 1..Len(items) : items[i].product = p
    ELSE 0

\* Product.is_in_stock()
is_in_stock(stk, p) == stk[p] > 0

\* the quantity column of CartItem / OrderItem accepts no negative value
quantity_field_ok(q) == q >= 0

\* CartItem.get_total_price(): the line's quantity at the product's price
item_total_price(prc, item) == prc[item.product] * item.quantity

\* Cart.get_total_price(): the sum of the lines' totals
get_total_price(prc, items) ==
    SeqSum([i \in 1..Len(items) |-> item_total_price(prc, items[i])])

\* the items of a session's cart; none when the session has no cart
cart_items_of(cs, s) == cs[s].items

\* get_or_create_cart: the session's cart, created empty when missing
get_or_create_cart(cs, s) == [cs EXCEPT ![s].exists = TRUE]

TypeOK ==
    /\ stock \in [Products -> Int]
    /\ price \in [Products -> Prices]
    /\ \A s \in Sessions : carts[s].exists \/ carts[s].items = <<>>
    /\ Len(orders) <= MaxOrders + 1

Init ==
    /\ stock = [p \in Products |-> MaxStock]
    /\ price = [p \in Products |-> 1]
    /\ carts = [s \in Sessions |-> NoCart]
    /\ orders = <<>>
    /\ reviews = <<>>
    /\ inflight = [s \in Sessions |-> Idle]
    /\ session_cart = [s \in Sessions |-> [p \in Products |-> 0]]
    /\ simple_orders = <<>>
    /\ simple_reviews = <<>>
    /\ user_email = [u \in Usernames |-> IF u = "testuser" THEN "e1" ELSE NoUser]
    /\ session_login = [s \in Sessions |-> NoUser]
    /\ stores = [st \in StoreIds |->
                    IF st = "st1" THEN [exists |-> TRUE, vendor |-> "v1", name |-> "n1"]
                    ELSE NoStore]
    /\ product_store = [p \in Products |-> "st1"]
    /\ resp = NoRequest

\* ------------------------------------------------------------- add_to_cart
\* CartItem.objects.get_or_create(cart, product, defaults={'quantity': q}) and
\* the increment-and-clamp of an existing line; raised: the row was refused
add_to_cart_items(items, stk, p, q) ==
    LET i == ItemIndex(items, p) IN
    IF i = 0
    THEN IF quantity_field_ok(q)
         THEN [items |-> Append(items, [product |-> p, quantity |-> q]), raised |-> FALSE]
         ELSE [items |-> items, raised |-> TRUE]
    ELSE LET sum == items[i].quantity + q
             clamped == IF sum > stk[p] THEN stk[p] ELSE sum
         IN IF quantity_field_ok(clamped)
            THEN [items |-> [items EXCEPT ![i].quantity = clamped], raised |-> FALSE]
            ELSE [items |-> items, raised |-> TRUE]

\* add_to_cart without its test of the caller: whoever asks gets the line
add_to_cart_any_caller(s, p, q) ==
    /\ inflight[s] = Idle
    /\ IF ~product_exists(p)
       THEN /\ resp' = [op |-> "add_to_cart", session |-> s, result |-> "error"]
            /\ UNCHANGED carts
       ELSE IF ~is_in_stock(stock, p) \/ stock[p] < q
       THEN /\ resp' = [op |-> "add_to_cart", session |-> s, result |-> "insufficient_stock"]
            /\ UNCHANGED carts
       ELSE LET cs == get_or_create_cart(carts, s)
                r == add_to_cart_items(cs[s].items, stock, p, q)
            IN /\ carts' = [cs EXCEPT ![s].items = r.items]
               /\ resp' = [op |-> "add_to_cart", session |-> s,
                           result |-> IF r.raised THEN "error" ELSE "added"]
    /\ UNCHANGED <<stock, price, orders, reviews, inflight>>
    /\ UNCHANGED simple_vars
    /\ UNCHANGED catalog_vars

add_to_cart(s, p, q) ==
    /\ inflight[s] = Idle
    /\ IF ~is_authenticated(request_user(s)) \/ ~is_buyer(request_user(s))
       THEN /\ resp' = [op |-> "add_to_cart", session |-> s, result |-> "login_required"]
            /\ UNCHANGED carts
       ELSE IF ~product_exists(p)
       THEN /\ resp' = [op |-> "add_to_cart", session |-> s, result |-> "error"]
            /\ UNCHANGED carts
       ELSE IF ~is_in_stock(stock, p) \/ stock[p] < q
       THEN /\ resp' = [op |-> "add_to_cart", session |-> s, result |-> "insufficient_stock"]
            /\ UNCHANGED carts
       ELSE LET cs == get_or_create_cart(carts, s)
                r == add_to_cart_items(cs[s].items, stock, p, q)
            IN /\ carts' = [cs EXCEPT ![s].items = r.items]
               /\ resp' = [op |-> "add_to_cart", session |-> s,
                           result |-> IF r.raised THEN "error" ELSE "added"]
    /\ UNCHANGED <<stock, price, orders, reviews, inflight>>
    /\ UNCHANGED simple_vars
    /\ UNCHANGED catalog_vars

\* -------------------------------------------------------- update_cart_item
\* item ids are modelled by the product of the line: a cart has one line per product
update_cart_item(s, p, q) ==
    /\ inflight[s] = Idle
    /\ IF ~is_authenticated(request_user(s))
       THEN /\ resp' = [op |-> "update_cart_item", session |-> s, result |-> "login_redirect"]
            /\ UNCHANGED carts
       ELSE IF ~is_buyer(request_user(s))
       THEN /\ resp' = [op |-> "update_cart_item", session |-> s, result |-> "access_denied"]
            /\ UNCHANGED carts
       ELSE LET cs == get_or_create_cart(carts, s)
                i == ItemIndex(cs[s].items, p)
            IN IF i = 0
               THEN /\ carts' = cs
                    /\ resp' = [op |-> "update_cart_item", session |-> s, result |-> "not_found"]
               ELSE IF q <= 0
               THEN /\ carts' = [cs EXCEPT ![s].items = RemoveAt(@, i)]
                    /\ resp' = [op |-> "update_cart_item", session |-> s, result |-> "removed"]
               ELSE IF q > stock[p]
               THEN /\ carts' = cs
                    /\ resp' = [op |-> "update_cart_item", session |-> s, result |-> "only_n_available"]
               ELSE /\ carts' = [cs EXCEPT ![s].items[i].quantity = q]
                    /\ resp' = [op |-> "update_cart_item", session |-> s, result |-> "updated"]
    /\ UNCHANGED <<stock, price, orders, reviews, inflight>>
    /\ UNCHANGED simple_vars
    /\ UNCHANGED catalog_vars

\* -------------------------------------------------------- remove_from_cart
remove_from_cart(s, p) ==
    /\ inflight[s] = Idle
    /\ IF ~is_authenticated(request_user(s))
       THEN /\ resp' = [op |-> "remove_from_cart", session |-> s, result |-> "login_redirect"]
            /\ UNCHANGED carts
       ELSE IF ~is_buyer(request_user(s))
       THEN /\ resp' = [op |-> "remove_from_cart", session |-> s, result |-> "access_denied"]
            /\ UNCHANGED carts
       ELSE LET cs == get_or_create_cart(carts, s)
                i == ItemIndex(cs[s].items, p)
            IN IF i = 0
               THEN /\ carts' = cs
                    /\ resp' = [op |-> "remove_from_cart", session |-> s, result |-> "not_found"]
               ELSE /\ carts' = [cs EXCEPT ![s].items = RemoveAt(@, i)]
                    /\ resp' = [op |-> "remove_from_cart", session |-> s, result |-> "removed"]
    /\ UNCHANGED <<stock, price, orders, reviews, inflight>>
    /\ UNCHANGED simple_vars
    /\ UNCHANGED catalog_vars

\* ------------------------------------------------------------ edit_product
\* the orders with every line of product p repriced
repriced(ords, p, newPrice) ==
    [i \in 1..Len(ords) |->
        [ords[i] EXCEPT !.items =
            [j \in 1..Len(ords[i].items) |->
                IF ords[i].items[j].product = p
                THEN [ords[i].items[j] EXCEPT !.price_at_purchase = newPrice]
                ELSE ords[i].items[j]]]]

\* edit_product with order lines that follow the product's price instead of
\* keeping the price they were bought at
edit_product_live_price(s, p, newPrice, newStock) ==
    /\ inflight[s] = Idle
    /\ owned_product(p, request_user(s))
    /\ price' = [price EXCEPT ![p] = newPrice]
    /\ stock' = [stock EXCEPT ![p] = newStock]
    /\ orders' = repriced(orders, p, newPrice)
    /\ resp' = [op |-> "edit_product", session |-> s, result |-> "updated"]
    /\ UNCHANGED <<carts, reviews, inflight>>
    /\ UNCHANGED simple_vars
    /\ UNCHANGED catalog_vars

\* a POST of a valid ProductForm by the product's vendor saves price and stock
edit_product(s, p, newPrice, newStock) ==
    /\ inflight[s] = Idle
    /\ IF ~is_authenticated(request_user(s))
       THEN /\ resp' = [op |-> "edit_product", session |-> s, result |-> "login_redirect"]
            /\ UNCHANGED <<stock, price>>
       ELSE IF ~owned_product(p, request_user(s))
       THEN /\ resp' = [op |-> "edit_product", session |-> s, result |-> "not_found"]
            /\ UNCHANGED <<stock, price>>
       ELSE /\ price' = [price EXCEPT ![p] = newPrice]
            /\ stock' = [stock EXCEPT ![p] = newStock]
            /\ resp' = [op |-> "edit_product", session |-> s, result |-> "updated"]
    /\ UNCHANGED <<carts, orders, reviews, inflight>>
    /\ UNCHANGED simple_vars
    /\ UNCHANGED catalog_vars

\* ------------------------------------------------- stores and their products
\* the first store id without a row: the id the next Store row gets
free_store_id == CHOOSE st \in StoreIds : ~stores[st].exists

create_store(s, name) ==
    /\ inflight[s] = Idle
    /\ LET u == request_user(s)
           r(res) == [op |-> "create_store", session |-> s, result |-> res]
       IN IF ~is_authenticated(u)
          THEN resp' = r("login_redirect") /\ UNCHANGED stores
          ELSE IF ~is_vendor(u)
          THEN resp' = r("access_denied") /\ UNCHANGED stores
          ELSE /\ \E st \in StoreIds : ~stores[st].exists
               /\ stores' = [stores EXCEPT ![free_store_id] =
                                [exists |-> TRUE, vendor |-> u, name |-> name]]
               /\ resp' = r("created")
    /\ UNCHANGED <<stock, price, carts, orders, reviews, inflight, product_store>>
    /\ UNCHANGED simple_vars

\* a POST of a valid StoreForm on a store of the caller
edit_store(s, st, name) ==
    /\ inflight[s] = Idle
    /\ LET u == request_user(s)
           r(res) == [op |-> "edit_store", session |-> s, result |-> res]
       IN IF ~is_authenticated(u)
          THEN resp' = r("login_redirect") /\ UNCHANGED stores
          ELSE IF ~owned_store(st, u)
          THEN resp' = r("not_found") /\ UNCHANGED stores
          ELSE /\ stores' = [stores EXCEPT ![st].name = name]
               /\ resp' = r("updated")
    /\ UNCHANGED <<stock, price, carts, orders, reviews, inflight, product_store>>
    /\ UNCHANGED simple_vars

\* some OrderItem refers to a product of P: the rows that protect a product
\* from deletion
has_order_items(ords, P) ==
    \E i \in 1..Len(ords) : \E j \in 1..Len(ords[i].items) : ords[i].items[j].product \in P

\* the carts without the lines of the products of P
carts_without(cs, P) ==
    [s \in Sessions |-> [cs[s] EXCEPT !.items = SelectSeq(@, LAMBDA it : it.product \notin P)]]

\* the reviews without those of the products of P
reviews_without(revs, P) == SelectSeq(revs, LAMBDA r : r.product \notin P)

\* the Product rows of P deleted, with the cart lines and reviews that hang on
\* them; a product without a row keeps no stock and the price 1 in the model
delete_products(P) ==
    /\ product_store' = [p \in Products |-> IF p \in P THEN NoStoreId ELSE product_store[p]]
    /\ stock' = [p \in Products |-> IF p \in P THEN 0 ELSE stock[p]]
    /\ price' = [p \in Products |-> IF p \in P THEN 1 ELSE price[p]]
    /\ carts' = carts_without(carts, P)
    /\ reviews' = reviews_without(reviews, P)

\* the products of a store
store_products(st) == {p \in Products : product_store[p] = st}

\* a POST on a store of the caller: store.delete() takes the store's products along
delete_store(s, st) ==
    /\ inflight[s] = Idle
    /\ LET u == request_user(s)
           r(res) == [op |-> "delete_store", session |-> s, result |-> res]
           same == UNCHANGED <<stock, price, carts, reviews, stores, product_store>>
       IN IF ~is_authenticated(u)
          THEN resp' = r("login_redirect") /\ same
          ELSE IF ~owned_store(st, u)
          THEN resp' = r("not_found") /\ same
          ELSE IF has_order_items(orders, store_products(st))
          THEN resp' = r("protected") /\ same
          ELSE /\ delete_products(store_products(st))
               /\ stores' = [stores EXCEPT ![st] = NoStore]
               /\ resp' = r("deleted")
    /\ UNCHANGED <<orders, inflight>>
    /\ UNCHANGED simple_vars

\* a POST of a valid ProductForm on a store of the caller; p: the id the new
\* Product row gets
create_product(s, st, p, newPrice, newStock) ==
    /\ inflight[s] = Idle
    /\ ~product_exists(p)
    /\ LET u == request_user(s)
           r(res) == [op |-> "create_product", session |-> s, result |-> res]
       IN IF ~is_authenticated(u)
          THEN resp' = r("login_redirect") /\ UNCHANGED <<stock, price, product_store>>
          ELSE IF ~owned_store(st, u)
          THEN resp' = r("not_found") /\ UNCHANGED <<stock, price, product_store>>
          ELSE /\ product_store' = [product_store EXCEPT ![p] = st]
               /\ price' = [price EXCEPT ![p] = newPrice]
               /\ stock' = [stock EXCEPT ![p] = newStock]
               /\ resp' = r("created")
    /\ UNCHANGED <<carts, orders, reviews, inflight, stores>>
    /\ UNCHANGED simple_vars

\* a POST on a product of the caller
delete_product(s, p) ==
    /\ inflight[s] = Idle
    /\ LET u == request_user(s)
           r(res) == [op |-> "delete_product", session |-> s, result |-> res]
           same == UNCHANGED <<stock, price, carts, reviews, product_store>>
       IN IF ~is_authenticated(u)
          THEN resp' = r("login_redirect") /\ same
          ELSE IF ~owned_product(p, u)
          THEN resp' = r("not_found") /\ same
          ELSE IF has_order_items(orders, {p})
          THEN resp' = r("protected") /\ same
          ELSE /\ delete_products({p})
               /\ resp' = r("deleted")
    /\ UNCHANGED <<orders, inflight, stores>>
    /\ UNCHANGED simple_vars

\* ---------------------------------------------------------------- checkout
\* cart.items.all().select_related('product'), evaluated by `if not cart_items`:
\* each line with the product row as read at that moment
load_cart_items(cs, stk, prc, s) ==
    LET items == cart_items_of(cs, s) IN
    [i \in 1..Len(items) |->
        [product |-> items[i].product, quantity |-> items[i].quantity,
         quantity_in_stock |-> stk[items[i].product], price |-> prc[items[i].product]]]

\* the emptiness test left out: an empty cart is let through
cart_is_empty_unchecked(items) == FALSE

\* `if not cart_items`: no cart, or a cart without lines
cart_is_empty(items) == items = <<>>

\* the address test left out: an empty address is let through
address_missing_unchecked(addr) == FALSE

\* `if not shipping_address`: the field is absent or empty
address_missing(addr) == addr = NoAddress

\* Order.objects.create(buyer, total_amount=cart.get_total_price(), shipping_address)
create_order(db, cs, s, addr) ==
    [db EXCEPT !.orders = Append(db.orders,
        [buyer |-> request_user(s),
         total_amount |-> get_total_price(db.price, cart_items_of(cs, s)),
         shipping_address |-> addr,
         items |-> <<>>])]

\* the loop's test left out: every line is taken as covered
stock_sufficient_unchecked(it) == TRUE

\* the loop's test: the product row loaded with the line covers the line's quantity
stock_sufficient(it) == it.quantity_in_stock >= it.quantity

\* OrderItem.objects.create(order, product, quantity, price_at_purchase=product.price)
order_item_of(it) ==
    [product |-> it.product, quantity |-> it.quantity, price_at_purchase |-> it.price]

\* the decrement taking one unit more than the line's quantity
decremented_stock_off(it) == it.quantity_in_stock - it.quantity - 1

\* product.quantity_in_stock -= quantity
decremented_stock(it) == it.quantity_in_stock - it.quantity

\* the loop body taking the quantity off the stock as it is now, not as loaded
checkout_item_current_stock(db, oid, it) ==
    [db EXCEPT !.orders[oid].items = Append(@, order_item_of(it)),
               !.stock[it.product] = @ - it.quantity]

\* the loop body with product.save() left out: the OrderItem row is inserted and
\* the product row stays as it was
checkout_item_unsaved(db, oid, it) ==
    [db EXCEPT !.orders[oid].items = Append(@, order_item_of(it))]

\* one pass of the loop body for a line with enough stock: the OrderItem row is
\* inserted and product.save() writes the loaded product row back
checkout_item(db, oid, it) ==
    [db EXCEPT !.orders[oid].items = Append(@, order_item_of(it)),
               !.stock[it.product] = decremented_stock(it),
               !.price[it.product] = it.price]

\* the loop body run for every line from line i on, no line tested
RECURSIVE checkout_every_item(_, _, _, _)
checkout_every_item(db, oid, items, i) ==
    IF i > Len(items) THEN db
    ELSE checkout_every_item(checkout_item(db, oid, items[i]), oid, items, i + 1)

\* the loop testing every line before it writes any: a line that lacks stock
\* stops the checkout with no OrderItem inserted and no stock changed
checkout_loop_checks_first(db, oid, items, i) ==
    IF \E j \in i..Len(items) : ~stock_sufficient(items[j])
    THEN [db |-> db, failed |-> TRUE]
    ELSE [db |-> checkout_every_item(db, oid, items, i), failed |-> FALSE]

\* the loop over the loaded lines from line i on; failed: a line lacked stock and
\* the handler returned from inside the loop
RECURSIVE checkout_loop(_, _, _, _)
checkout_loop(db, oid, items, i) ==
    IF i > Len(items) THEN [db |-> db, failed |-> FALSE]
    ELSE IF stock_sufficient(items[i])
    THEN checkout_loop(checkout_item(db, oid, items[i]), oid, items, i + 1)
    ELSE [db |-> db, failed |-> TRUE]

\* cart.delete() left out: the Cart row and its lines stay
delete_cart_skipped(cs, s) == cs

\* cart.delete(): the session's Cart row goes, and its CartItems with it
delete_cart(cs, s) == [cs EXCEPT ![s] = NoCart]

\* the rows the handler reads and writes, as one value
database == [stock |-> stock, price |-> price, orders |-> orders]

checkout(s, method, addr) ==
    /\ inflight[s] = Idle
    /\ LET items == load_cart_items(carts, stock, price, s)
           r(res) == [op |-> "checkout", session |-> s, method |-> method,
                      address |-> addr, result |-> res]
       IN
       IF ~is_authenticated(request_user(s))
       THEN /\ resp' = r("login_redirect")
            /\ UNCHANGED <<stock, price, carts, orders>>
       ELSE IF ~is_buyer(request_user(s))
       THEN /\ resp' = r("access_denied")
            /\ UNCHANGED <<stock, price, carts, orders>>
       ELSE IF cart_is_empty(items)
       THEN /\ resp' = r("empty_cart")
            /\ UNCHANGED <<stock, price, carts, orders>>
       ELSE IF method # "POST"
       THEN /\ resp' = r("form")
            /\ UNCHANGED <<stock, price, carts, orders>>
       ELSE IF address_missing(addr)
       THEN /\ resp' = r("address_required")
            /\ UNCHANGED <<stock, price, carts, orders>>
       ELSE /\ Len(orders) < MaxOrders
            /\ LET db1 == create_order(database, carts, s, addr)
                   out == checkout_loop(db1, Len(db1.orders), items, 1)
               IN /\ stock' = out.db.stock
                  /\ price' = out.db.price
                  /\ orders' = out.db.orders
                  /\ IF out.failed
                     THEN /\ resp' = r("insufficient_stock")
                          /\ UNCHANGED carts
                     ELSE /\ resp' = r("order_placed")
                          /\ carts' = delete_cart(carts, s)
    /\ UNCHANGED <<reviews, inflight>>
    /\ UNCHANGED simple_vars
    /\ UNCHANGED catalog_vars

\* -------------------------------------------------------------- add_review
\* the duplicate test left out: Review.objects.filter(...) is taken as empty
existing_review_unchecked(revs, p, u) == FALSE

\* Review.objects.filter(product=product, buyer=request.user).first()
existing_review(revs, p, u) ==
    \E i \in 1..Len(revs) : revs[i].product = p /\ revs[i].buyer = u

\* OrderItem.objects.filter(order__buyer=request.user, product=product).exists()
has_purchased(ords, u, p) ==
    \E i \in 1..Len(ords) :
        /\ ords[i].buyer = u
        /\ \E j \in 1..Len(ords[i].items) : ords[i].items[j].product = p

add_review(s, p, method, rating) ==
    /\ inflight[s] = Idle
    /\ LET u == request_user(s)
           r(res) == [op |-> "add_review", session |-> s, product |-> p,
                      rating |-> rating, result |-> res]
       IN
       IF ~is_authenticated(u)
       THEN resp' = r("login_redirect") /\ UNCHANGED reviews
       ELSE IF ~is_buyer(u)
       THEN resp' = r("buyers_only") /\ UNCHANGED reviews
       ELSE IF ~product_exists(p)
       THEN resp' = r("not_found") /\ UNCHANGED reviews
       ELSE IF existing_review(reviews, p, u)
       THEN resp' = r("already_reviewed") /\ UNCHANGED reviews
       ELSE IF method = "POST"
       THEN /\ reviews' = Append(reviews,
                [product |-> p, buyer |-> u, rating |-> rating,
                 is_verified |-> has_purchased(orders, u, p)])
            /\ resp' = r("review_added")
       ELSE resp' = r("redirect") /\ UNCHANGED reviews
    /\ UNCHANGED <<stock, price, carts, orders, inflight>>
    /\ UNCHANGED simple_vars
    /\ UNCHANGED catalog_vars

\* ------------------------------------------ the minimal app (src/ecommerce)
\* Product.price of the minimal app's products; no handler of it writes a product
simple_price(p) == IF p = "p1" THEN 1 ELSE 2

\* the products in id order, the order Product.objects.filter(...) lists them in
ProductOrder == <<"p1", "p2">>

\* cart_add that stores a count of 1 whatever the cart held
cart_add_resets(s, p) ==
    /\ session_cart[s][p] < MaxCartCount
    /\ session_cart' = [session_cart EXCEPT ![s][p] = 1]
    /\ resp' = [op |-> "cart_add", session |-> s, product |-> p, result |-> "redirect"]
    /\ UNCHANGED <<simple_orders, simple_reviews>>
    /\ UNCHANGED shop_vars
    /\ UNCHANGED auth_vars

\* cart_add: cart[id] = cart.get(id, 0) + 1
cart_add(s, p) ==
    /\ session_cart[s][p] < MaxCartCount
    /\ session_cart' = [session_cart EXCEPT ![s][p] = @ + 1]
    /\ resp' = [op |-> "cart_add", session |-> s, product |-> p, result |-> "redirect"]
    /\ UNCHANGED <<simple_orders, simple_reviews>>
    /\ UNCHANGED shop_vars
    /\ UNCHANGED auth_vars

\* cart_remove: the product's key is deleted when present
cart_remove(s, p) ==
    /\ session_cart' = [session_cart EXCEPT ![s][p] = 0]
    /\ resp' = [op |-> "cart_remove", session |-> s, product |-> p, result |-> "redirect"]
    /\ UNCHANGED <<simple_orders, simple_reviews>>
    /\ UNCHANGED shop_vars
    /\ UNCHANGED auth_vars

\* the OrderItems checkout creates: one per product of the cart, in id order
simple_order_items(cart) ==
    LET inCart == SelectSeq(ProductOrder, LAMBDA p : cart[p] > 0)
    IN [i \in 1..Len(inCart) |->
           [product |-> inCart[i], quantity |-> cart[inCart[i]],
            price |-> simple_price(inCart[i])]]

\* the total as the sum of the prices, the quantities left out
simple_total_of_prices(cart) ==
    LET its == simple_order_items(cart)
    IN SeqSum([i \in 1..Len(its) |-> its[i].price])

\* total = sum([p.price * cart[str(p.id)] for p in products])
simple_total(cart) ==
    LET its == simple_order_items(cart)
    IN SeqSum([i \in 1..Len(its) |-> its[i].price * its[i].quantity])

\* checkout of the minimal app, for any request method
simple_checkout(s) ==
    /\ IF ~is_authenticated(request_user(s))
       THEN /\ resp' = [op |-> "simple_checkout", session |-> s, result |-> "login_redirect"]
            /\ UNCHANGED <<session_cart, simple_orders>>
       ELSE IF \A p \in Products : session_cart[s][p] = 0
       THEN /\ resp' = [op |-> "simple_checkout", session |-> s, result |-> "redirect_home"]
            /\ UNCHANGED <<session_cart, simple_orders>>
       ELSE /\ Len(simple_orders) < MaxOrders
            /\ simple_orders' = Append(simple_orders,
                  [user |-> request_user(s), total |-> simple_total(session_cart[s]),
                   paid |-> TRUE, items |-> simple_order_items(session_cart[s])])
            /\ session_cart' = [session_cart EXCEPT ![s] = [p \in Products |-> 0]]
            /\ resp' = [op |-> "simple_checkout", session |-> s, result |-> "order"]
    /\ UNCHANGED simple_reviews
    /\ UNCHANGED shop_vars
    /\ UNCHANGED auth_vars

\* product_detail, POST with a rating: the review form is saved for request.user
product_detail(s, p, rating) ==
    /\ Len(simple_reviews) < MaxReviews
    /\ simple_reviews' = Append(simple_reviews,
          [product |-> p, user |-> request_user(s), rating |-> rating,
           verified |-> FALSE])
    /\ resp' = [op |-> "product_detail", session |-> s, result |-> "review_saved"]
    /\ UNCHANGED <<session_cart, simple_orders>>
    /\ UNCHANGED shop_vars
    /\ UNCHANGED auth_vars

\* UserRegisterForm.is_valid(): the username is new, the required email is
\* there and no user has it, the two passwords agree
register_form_valid(users, username, email, password1, password2) ==
    /\ users[username] = NoUser
    /\ email # NoEmail
    /\ \A u \in Usernames : users[u] # email
    /\ password1 = password2

\* register, POST: the view the name is bound to, with UserRegisterForm
register(s, username, email, password1, password2) ==
    /\ LET r(res) == [op |-> "register", session |-> s, username |-> username,
                      email |-> email, passwords_match |-> (password1 = password2),
                      result |-> res]
       IN IF register_form_valid(user_email, username, email, password1, password2)
          THEN /\ user_email' = [user_email EXCEPT ![username] = email]
               /\ session_login' = [session_login EXCEPT ![s] = username]
               /\ resp' = r("redirect_home")
          ELSE /\ resp' = r("form_errors")
               /\ UNCHANGED <<user_email, session_login>>
    /\ UNCHANGED <<session_cart, simple_orders, simple_reviews>>
    /\ UNCHANGED shop_vars

\* ------------------------------------------- checkout, one query at a time
\* The same handler as the steps other requests can come between: the cart and
\* its lines are loaded, the order row is inserted, each pass of the loop
\* inserts an OrderItem and saves a product, the cart is deleted. A session
\* has one request in progress at a time.

\* lines 506-524 of a POST: load, then the two early returns
ck_begin(s, addr) ==
    /\ inflight[s] = Idle
    /\ is_buyer(request_user(s))
    /\ LET items == load_cart_items(carts, stock, price, s)
           r(res) == [op |-> "checkout", session |-> s, method |-> "POST",
                      address |-> addr, result |-> res]
       IN IF cart_is_empty(items)
          THEN resp' = r("empty_cart") /\ UNCHANGED inflight
          ELSE IF address_missing(addr)
          THEN resp' = r("address_required") /\ UNCHANGED inflight
          ELSE /\ inflight' = [inflight EXCEPT ![s] =
                                  [at |-> "create", items |-> items, address |-> addr]]
               /\ UNCHANGED resp
    /\ UNCHANGED <<stock, price, carts, orders, reviews>>
    /\ UNCHANGED simple_vars
    /\ UNCHANGED catalog_vars

\* lines 526-531: the total is read and the Order row inserted
ck_create_order(s) ==
    /\ inflight[s].at = "create"
    /\ Len(orders) < MaxOrders
    /\ LET db1 == create_order(database, carts, s, inflight[s].address)
       IN /\ orders' = db1.orders
          /\ inflight' = [inflight EXCEPT ![s] =
                [at |-> "loop", items |-> inflight[s].items,
                 address |-> inflight[s].address, i |-> 1, order |-> Len(db1.orders)]]
    /\ UNCHANGED <<stock, price, carts, reviews, resp>>
    /\ UNCHANGED simple_vars
    /\ UNCHANGED catalog_vars

\* lines 534-548: one pass of the loop, on the product row loaded at the start
ck_item(s) ==
    /\ inflight[s].at = "loop"
    /\ inflight[s].i <= Len(inflight[s].items)
    /\ LET it == inflight[s].items[inflight[s].i] IN
       IF stock_sufficient(it)
       THEN LET db1 == checkout_item(database, inflight[s].order, it)
            IN /\ stock' = db1.stock
               /\ price' = db1.price
               /\ orders' = db1.orders
               /\ inflight' = [inflight EXCEPT ![s].i = @ + 1]
               /\ UNCHANGED resp
       ELSE /\ resp' = [op |-> "checkout", session |-> s, method |-> "POST",
                        address |-> inflight[s].address, result |-> "insufficient_stock"]
            /\ inflight' = [inflight EXCEPT ![s] = Idle]
            /\ UNCHANGED <<stock, price, orders>>
    /\ UNCHANGED <<carts, reviews>>
    /\ UNCHANGED simple_vars
    /\ UNCHANGED catalog_vars

\* lines 550-557: cart.delete() and the redirect to the confirmation
ck_finish(s) ==
    /\ inflight[s].at = "loop"
    /\ inflight[s].i > Len(inflight[s].items)
    /\ carts' = delete_cart(carts, s)
    /\ resp' = [op |-> "checkout", session |-> s, method |-> "POST",
                address |-> inflight[s].address, result |-> "order_placed"]
    /\ inflight' = [inflight EXCEPT ![s] = Idle]
    /\ UNCHANGED <<stock, price, orders, reviews>>
    /\ UNCHANGED simple_vars
    /\ UNCHANGED catalog_vars

\* ---------------------------------------------------------- specifications
\* the cart requests of the sessions in S
CartRequests(S) ==
    \/ \E s \in S, p \in Products, q \in PositiveQuantities : add_to_cart(s, p, q)
    \/ \E s \in S, p \in Products, q \in Quantities : update_cart_item(s, p, q)
    \/ \E s \in S, p \in Products : remove_from_cart(s, p)

\* the checkout requests of the sessions in S: the page (GET) and the form (POST)
CheckoutRequests(S) ==
    \/ \E s \in S : checkout(s, "GET", NoAddress)
    \/ \E s \in S, a \in Addresses \cup {NoAddress} : checkout(s, "POST", a)

\* the vendor's product edits: any price, the stock kept or set to zero (sold out)
VendorRequests ==
    \E s \in VendorSessions, p \in Products, np \in Prices :
        \E ns \in {0, stock[p]} : edit_product(s, p, np, ns)

\* the cart and checkout requests of the buyers' sessions, one at a time
Next == CartRequests(BuyerSessions) \/ CheckoutRequests(BuyerSessions)

Spec == Init /\ [][Next]_vars

\* one buyer's cart and checkout requests and the vendor's edits, one at a time
NextVendor ==
    CartRequests(ShopperSessions) \/ CheckoutRequests(ShopperSessions) \/ VendorRequests

SpecVendor == Init /\ [][NextVendor]_vars

\* the buyers' review requests
ReviewRequests(S) ==
    \E s \in S, p \in Products, m \in Methods, r \in Ratings : add_review(s, p, m, r)

\* the buyers add to their carts and check out, one of them reviews, one request
\* at a time
NextReview ==
    \/ \E s \in BuyerSessions, p \in Products, q \in PositiveQuantities : add_to_cart(s, p, q)
    \/ \E s \in BuyerSessions, a \in Addresses : checkout(s, "POST", a)
    \/ ReviewRequests(ShopperSessions)

SpecReview == Init /\ [][NextReview]_vars

\* the minimal app's cart, checkout and review requests, one at a time
NextSimple ==
    \/ \E s \in BuyerSessions, p \in Products : cart_add(s, p)
    \/ \E s \in BuyerSessions, p \in Products : cart_remove(s, p)
    \/ \E s \in BuyerSessions : simple_checkout(s)
    \/ \E s \in ShopperSessions, p \in Products, r \in Ratings : product_detail(s, p, r)

SpecSimple == Init /\ [][NextSimple]_vars

\* the minimal app's cart and checkout requests of one logged-in user's session,
\* and the checkout request of a session nobody is logged in on
NextSimpleCart ==
    \/ \E s \in ShopperSessions, p \in Products : cart_add(s, p)
    \/ \E s \in ShopperSessions, p \in Products : cart_remove(s, p)
    \/ \E s \in ShopperSessions \cup AnonymousSessions : simple_checkout(s)

SpecSimpleCart == Init /\ [][NextSimpleCart]_vars

\* registration POSTs, with and without the email field
NextRegister ==
    \E s \in ShopperSessions \cup AnonymousSessions, u \in Usernames,
       e \in Emails \cup {NoEmail}, p1 \in Passwords, p2 \in Passwords :
        register(s, u, e, p1, p2)

SpecRegister == Init /\ [][NextRegister]_vars

\* the buyers' add_to_cart requests and their checkout POSTs, the checkouts of
\* different sessions running at the same time
NextConc ==
    \/ \E s \in BuyerSessions, p \in Products, q \in PositiveQuantities : add_to_cart(s, p, q)
    \/ \E s \in BuyerSessions, a \in Addresses \cup {NoAddress} : ck_begin(s, a)
    \/ \E s \in BuyerSessions : ck_create_order(s)
    \/ \E s \in BuyerSessions : ck_item(s)
    \/ \E s \in BuyerSessions : ck_finish(s)

SpecConc == Init /\ [][NextConc]_vars

\* the quantities a cart request may carry: negative, zero, within and above stock
RequestQuantities == (0 - 1)..(MaxStock + 2)

\* the tables before any request, the vendor having stocked each product with
\* any number of units up to one more than MaxStock
InitCart ==
    /\ stock \in [Products -> 0..(MaxStock + 1)]
    /\ price = [p \in Products |-> 1]
    /\ carts = [s \in Sessions |-> NoCart]
    /\ orders = <<>>
    /\ reviews = <<>>
    /\ inflight = [s \in Sessions |-> Idle]
    /\ session_cart = [s \in Sessions |-> [p \in Products |-> 0]]
    /\ simple_orders = <<>>
    /\ simple_reviews = <<>>
    /\ user_email = [u \in Usernames |-> IF u = "testuser" THEN "e1" ELSE NoUser]
    /\ session_login = [s \in Sessions |-> NoUser]
    /\ stores = [st \in StoreIds |->
                    IF st = "st1" THEN [exists |-> TRUE, vendor |-> "v1", name |-> "n1"]
                    ELSE NoStore]
    /\ product_store = [p \in Products |-> "st1"]
    /\ resp = NoRequest

\* one buyer's cart requests with any quantity, and the buyer's checkout POSTs
NextCart ==
    \/ \E s \in ShopperSessions, p \in Products, q \in RequestQuantities : add_to_cart(s, p, q)
    \/ \E s \in ShopperSessions, p \in Products, q \in RequestQuantities : update_cart_item(s, p, q)
    \/ \E s \in ShopperSessions, p \in Products : remove_from_cart(s, p)
    \/ \E s \in ShopperSessions, a \in Addresses : checkout(s, "POST", a)

SpecCart == InitCart /\ [][NextCart]_vars

\* the sessions whose user is no buyer: the vendor's and the anonymous one
OtherSessions == VendorSessions \cup AnonymousSessions

\* the five buyer-only requests as sent from the sessions in S
BuyerOnlyRequests(S) ==
    \/ \E s \in S, p \in Products, q \in PositiveQuantities : add_to_cart(s, p, q)
    \/ \E s \in S, p \in Products, q \in Quantities : update_cart_item(s, p, q)
    \/ \E s \in S, p \in Products : remove_from_cart(s, p)
    \/ \E s \in S, a \in Addresses : checkout(s, "POST", a)
    \/ \E s \in S, p \in Products, r \in Ratings : add_review(s, p, "POST", r)

\* one buyer shops and reviews while the vendor and an anonymous visitor send
\* the same requests
NextRoles == BuyerOnlyRequests(ShopperSessions) \/ BuyerOnlyRequests(OtherSessions)

SpecRoles == Init /\ [][NextRoles]_vars

\* the sessions that send store and product management requests: the two
\* vendors and a buyer
ManagerSessions == VendorSessions \cup RivalSessions \cup ShopperSessions
\* the product the buyer shops for while the stores are managed
ShoppedProducts == {"p1"}

StoreRequests(S) ==
    \/ \E s \in S, n \in StoreNames : create_store(s, n)
    \/ \E s \in S, st \in StoreIds, n \in StoreNames : edit_store(s, st, n)
    \/ \E s \in S, st \in StoreIds : delete_store(s, st)
    \/ \E s \in S, st \in StoreIds, p \in Products : create_product(s, st, p, 1, MaxStock)
    \/ \E s \in S, p \in Products, np \in Prices :
            \E ns \in {0, stock[p]} : edit_product(s, p, np, ns)
    \/ \E s \in S, p \in Products : delete_product(s, p)

\* the store and product management requests of the three callers (a new
\* product comes at price 1 with MaxStock units, an edit sets any price and
\* keeps the stock or sets it to zero), and the buyer's add_to_cart requests
\* and first checkout, one at a time
NextStore ==
    \/ StoreRequests(ManagerSessions)
    \/ \E s \in ShopperSessions, p \in ShoppedProducts, q \in PositiveQuantities :
            add_to_cart(s, p, q)
    \/ \E s \in ShopperSessions, a \in Addresses : orders = <<>> /\ checkout(s, "POST", a)

SpecStore == Init /\ [][NextStore]_vars

\* both apps' requests that fill a cart and check it out: the full app's for the
\* buyers' sessions, the minimal app's for one logged-in session, both on one
\* product
NextRepeat ==
    \/ \E s \in BuyerSessions, p \in ShoppedProducts, q \in PositiveQuantities :
            add_to_cart(s, p, q)
    \/ CheckoutRequests(BuyerSessions)
    \/ \E s \in ShopperSessions, p \in ShoppedProducts : cart_add(s, p)
    \/ \E s \in ShopperSessions : simple_checkout(s)

SpecRepeat == Init /\ [][NextRepeat]_vars

\* ------------------------------------------------------------------ claims
\* the step just taken served a checkout request of session s
CheckoutServed(s) == resp'.op = "checkout" /\ resp'.session = s

\* some line of session s's cart asks for more than the product has in stock
SomeLineExceedsStock(s) ==
    \E i \in 1..Len(carts[s].items) :
        carts[s].items[i].quantity > stock[carts[s].items[i].product]

\* the sum of price_at_purchase * quantity over an order's items
order_items_sum(o) ==
    SeqSum([j \in 1..Len(o.items) |-> o.items[j].price_at_purchase * o.items[j].quantity])

\* the quantity session s's cart holds of product p
cart_quantity(s, p) ==
    SeqSum([i \in 1..Len(carts[s].items) |->
        IF carts[s].items[i].product = p THEN carts[s].items[i].quantity ELSE 0])

\* C1: under one-request-at-a-time execution, after any sequence of add_to_cart,
\* update_cart_item, remove_from_cart and checkout requests every product's
\* quantity_in_stock is >= 0.
C1_StockNeverNegative == \A p \in Products : stock[p] >= 0

\* C1's case: a checkout was refused for lack of stock after another one sold out
C1_Witness ==
    /\ resp.op = "checkout" /\ resp.result = "insufficient_stock"
    /\ \E p \in Products : stock[p] = 0
    /\ \E i \in 1..Len(orders) : orders[i].items # <<>>

\* C2: a checkout whose cart has a line asking for more than the current stock
\* creates no Order and no OrderItem and changes no product's stock, whatever the
\* position of the offending line.
C2_AllOrNothing ==
    [][\A s \in BuyerSessions :
        (CheckoutServed(s) /\ SomeLineExceedsStock(s))
            => (orders' = orders /\ stock' = stock)]_vars

\* C3: every Order's total_amount equals the sum over its OrderItems of
\* price_at_purchase * quantity, in every state a finished request leaves.
C3_TotalIsSumOfItems ==
    \A i \in 1..Len(orders) : orders[i].total_amount = order_items_sum(orders[i])

\* C4: a checkout of a session with no cart, or with a cart without items, is
\* answered "empty cart" and leaves Orders, OrderItems and every stock unchanged,
\* for the GET and the POST form alike.
C4_EmptyCartRejected ==
    [][\A s \in BuyerSessions :
        (CheckoutServed(s) /\ carts[s].items = <<>>)
            => (resp'.result = "empty_cart" /\ orders' = orders /\ stock' = stock)]_vars

\* C4's case: a POST with an address on a cart row that has no lines, refused
\* while earlier orders exist
C4_Witness ==
    /\ resp.op = "checkout" /\ resp.method = "POST" /\ resp.address # NoAddress
    /\ resp.result = "empty_cart"
    /\ carts[resp.session].exists /\ carts[resp.session].items = <<>>
    /\ orders # <<>>

\* C5: a checkout POST with an address on a non-empty cart whose every line is
\* covered by the current stock appends exactly one Order for the buyer with that
\* address, with one OrderItem per cart line carrying the line's quantity and the
\* product's current price, takes each line's quantity off the product's stock,
\* and deletes the cart with its lines.
C5_SuccessfulCheckout ==
    [][\A s \in BuyerSessions :
        (/\ CheckoutServed(s) /\ resp'.method = "POST" /\ resp'.address # NoAddress
         /\ carts[s].items # <<>> /\ ~SomeLineExceedsStock(s))
        => LET items == carts[s].items
               new == orders'[Len(orders')]
           IN /\ resp'.result = "order_placed"
              /\ Len(orders') = Len(orders) + 1
              /\ SubSeq(orders', 1, Len(orders)) = orders
              /\ new.buyer = request_user(s)
              /\ new.shipping_address = resp'.address
              /\ Len(new.items) = Len(items)
              /\ \A i \in 1..Len(items) :
                    new.items[i] = [product |-> items[i].product,
                                    quantity |-> items[i].quantity,
                                    price_at_purchase |-> price[items[i].product]]
              /\ \A p \in Products : stock'[p] = stock[p] - cart_quantity(s, p)
              /\ carts' = [carts EXCEPT ![s] = NoCart]]_vars

\* C5's case: an order with a line for each product was placed and its cart is gone
C5_Witness ==
    /\ resp.op = "checkout" /\ resp.result = "order_placed"
    /\ Len(orders[Len(orders)].items) = Cardinality(Products)
    /\ carts[resp.session] = NoCart

\* C6: once an OrderItem exists no later request (a vendor's edit_product changing
\* the price or the stock, a cart request, a further checkout) changes its
\* price_at_purchase or quantity, nor its Order's total_amount or shipping address.
C6_OrdersFrozen ==
    [][\A i \in 1..Len(orders) :
        /\ i <= Len(orders')
        /\ orders'[i].total_amount = orders[i].total_amount
        /\ orders'[i].shipping_address = orders[i].shipping_address
        /\ \A j \in 1..Len(orders[i].items) :
            /\ j <= Len(orders'[i].items)
            /\ orders'[i].items[j] = orders[i].items[j]]_vars

\* C6's case: the product of an existing order line now costs something else, and
\* a further checkout has been served since
C6_Witness ==
    /\ resp.op = "checkout" /\ resp.result = "order_placed"
    /\ Len(orders) >= 2
    /\ \E j \in 1..Len(orders[1].items) :
        orders[1].items[j].price_at_purchase # price[orders[1].items[j].product]

\* the quantity of product p in the OrderItems of all orders
sold(p) ==
    SeqSum([i \in 1..Len(orders) |->
        SeqSum([j \in 1..Len(orders[i].items) |->
            IF orders[i].items[j].product = p THEN orders[i].items[j].quantity ELSE 0])])

\* C7: two checkouts of different sessions running at the same time against one
\* product, each for a quantity the stock they read covers, both pass the test and
\* both decrement. Each pass of the loop decides on the product row its request
\* loaded, whatever the stock has become since: it inserts the OrderItem and
\* writes the loaded stock less the quantity. The witness is the oversold state.
C7_StaleStockDecides ==
    [][\A s \in BuyerSessions :
        (/\ inflight[s].at = "loop"
         /\ inflight'[s].at = "loop"
         /\ inflight'[s].i = inflight[s].i + 1)
        => LET it == inflight[s].items[inflight[s].i]
               o == inflight[s].order
           IN /\ it.quantity <= it.quantity_in_stock
              /\ orders'[o].items = Append(orders[o].items,
                    [product |-> it.product, quantity |-> it.quantity,
                     price_at_purchase |-> it.price])
              /\ stock'[it.product] = it.quantity_in_stock - it.quantity]_vars

\* C7's case: the orders of two buyers hold more units of a product than there
\* were, each checkout having passed the test on the stock it read
C7_Witness ==
    \E p \in Products :
        /\ sold(p) > MaxStock
        /\ \E i, k \in 1..Len(orders) :
            /\ orders[i].buyer # orders[k].buyer
            /\ \E j \in 1..Len(orders[i].items) : orders[i].items[j].product = p
            /\ \E j \in 1..Len(orders[k].items) : orders[k].items[j].product = p
        /\ \A s \in BuyerSessions : inflight[s] = Idle

\* C8: a checkout POST without a shipping address creates no Order and no
\* OrderItem, changes no stock and leaves every cart and cart line as it was.
C8_MissingAddressChangesNothing ==
    [][\A s \in BuyerSessions :
        (CheckoutServed(s) /\ resp'.method = "POST" /\ resp'.address = NoAddress)
            => (orders' = orders /\ stock' = stock /\ carts' = carts)]_vars

\* C8's case: the POST was refused for its missing address on a cart with lines
C8_Witness ==
    /\ resp.op = "checkout" /\ resp.result = "address_required"
    /\ carts[resp.session].items # <<>>

\* no two rows of a review table are by the same author on the same product
one_review_per_author(revs, author(_)) ==
    \A i, j \in 1..Len(revs) :
        i # j => ~(revs[i].product = revs[j].product /\ author(revs[i]) = author(revs[j]))

review_buyer(r) == r.buyer
review_user(r) == r.user

\* C9: a second review by the same author on the same product is rejected and the
\* first one stays as it is, so that no state holds two reviews of one
\* (product, author) pair: in the full app's Review table and in the minimal
\* app's.
C9_OneReviewPerAuthor ==
    /\ one_review_per_author(reviews, review_buyer)
    /\ one_review_per_author(simple_reviews, review_user)

\* the full app alone: add_review refuses an author's second review of a product
\* and leaves the table as it was, and the table never holds two
FullApp_SecondReviewRejected ==
    /\ []one_review_per_author(reviews, review_buyer)
    /\ [][(/\ resp'.op = "add_review"
           /\ \E i \in 1..Len(reviews) :
                /\ reviews[i].product = resp'.product
                /\ reviews[i].buyer = request_user(resp'.session))
          => (resp'.result = "already_reviewed" /\ reviews' = reviews)]_vars

FullApp_SecondReviewRejected_Witness ==
    /\ resp.op = "add_review" /\ resp.result = "already_reviewed"
    /\ \E i \in 1..Len(reviews) : reviews[i].rating # resp.rating

\* some Order row of the buyer, whatever became of its checkout, has an OrderItem
\* for the product: the query of add_review
has_order_item(u, p) ==
    \E i \in 1..Len(orders) :
        /\ orders[i].buyer = u
        /\ \E j \in 1..Len(orders[i].items) : orders[i].items[j].product = p

\* the checkout that created the Order ran to its end: every cart line got its
\* OrderItem, so the items add up to the total taken from the cart
order_completed(o) == order_items_sum(o) = o.total_amount

\* the author has a completed order with an item for the product (full app: an
\* Order whose checkout completed; minimal app: a paid Order)
purchased_in_full_app(u, p) ==
    \E i \in 1..Len(orders) :
        /\ orders[i].buyer = u /\ order_completed(orders[i])
        /\ \E j \in 1..Len(orders[i].items) : orders[i].items[j].product = p

purchased_in_simple_app(u, p) ==
    \E i \in 1..Len(simple_orders) :
        /\ simple_orders[i].user = u /\ simple_orders[i].paid
        /\ \E j \in 1..Len(simple_orders[i].items) : simple_orders[i].items[j].product = p

\* C10: a review is stored verified exactly when, as it is added, its author has a
\* completed order with an OrderItem for the reviewed product.
C10_VerifiedIffPurchased ==
    [][/\ (Len(reviews') = Len(reviews) + 1) =>
            LET r == reviews'[Len(reviews')]
            IN r.is_verified <=> purchased_in_full_app(r.buyer, r.product)
       /\ (Len(simple_reviews') = Len(simple_reviews) + 1) =>
            LET r == simple_reviews'[Len(simple_reviews')]
            IN r.verified <=> purchased_in_simple_app(r.user, r.product)]_vars

\* the full app alone: is_verified is set exactly when some Order row of the
\* buyer, whatever became of its checkout, has an OrderItem for the product
FullApp_VerifiedIffOrderItem ==
    [][(Len(reviews') = Len(reviews) + 1) =>
            LET r == reviews'[Len(reviews')]
            IN r.is_verified <=> has_order_item(r.buyer, r.product)]_vars

\* the full app alone, against completed orders only
FullApp_VerifiedIffCompletedOrder ==
    [][(Len(reviews') = Len(reviews) + 1) =>
            LET r == reviews'[Len(reviews')]
            IN r.is_verified <=> purchased_in_full_app(r.buyer, r.product)]_vars

\* a verified review whose author's only order is the one a refused checkout
\* left behind
FullApp_VerifiedByRefusedCheckout ==
    /\ \E i \in 1..Len(reviews) : reviews[i].is_verified /\ reviews[i].buyer = "b1"
    /\ carts["s1"].items # <<>>
    /\ \A i \in 1..Len(orders) :
        orders[i].buyer = "b1" => Len(orders[i].items) < Len(carts["s1"].items)

\* the minimal app's checkout on an empty session cart redirects and creates no
\* order, whatever the request method
Simple_EmptyCartRejected ==
    [][(resp'.op = "simple_checkout"
        /\ \A p \in Products : session_cart[resp'.session][p] = 0)
       => (resp'.result = "redirect_home" /\ simple_orders' = simple_orders)]_vars

\* whether session s's cart has a line of product p
has_line(cs, s, p) == ItemIndex(cs[s].items, p) # 0

\* the quantity of session s's line of product p
line_quantity(cs, s, p) == cs[s].items[ItemIndex(cs[s].items, p)].quantity

Min(a, b) == IF a < b THEN a ELSE b

\* C11: after an add_to_cart request of a positive quantity for a product in
\* stock, whether the cart had a line of the product or not, the cart has a line
\* of it whose quantity is min(old quantity + requested quantity, stock), and so
\* at most the stock.
C11_AddClampsToStock ==
    [][\A s \in BuyerSessions, p \in Products, q \in RequestQuantities :
         (q >= 1 /\ stock[p] >= 1 /\ add_to_cart(s, p, q)) =>
            /\ has_line(carts', s, p)
            /\ line_quantity(carts', s, p) = Min(cart_quantity(s, p) + q, stock[p])
            /\ line_quantity(carts', s, p) <= stock[p]]_vars

\* C12: update_cart_item on a line of the cart deletes the line when the new
\* quantity is <= 0, and otherwise saves it with min(new quantity, stock): a
\* quantity above the stock is clamped and saved, not refused.
C12_UpdateDeletesOrClamps ==
    [][\A s \in BuyerSessions, p \in Products, q \in RequestQuantities :
         (/\ has_line(carts, s, p) /\ line_quantity(carts, s, p) >= 1
          /\ stock[p] >= 1
          /\ update_cart_item(s, p, q)) =>
            IF q <= 0
            THEN ~has_line(carts', s, p)
            ELSE /\ has_line(carts', s, p)
                 /\ line_quantity(carts', s, p) = Min(q, stock[p])]_vars

\* add_to_cart of a quantity from 1 to the stock creates the line or raises it,
\* clamped to the stock; of a quantity above the stock it changes no cart line
AddWithinStockClamps ==
    [][\A s \in BuyerSessions, p \in Products, q \in RequestQuantities :
         (q >= 1 /\ add_to_cart(s, p, q)) =>
            IF q <= stock[p]
            THEN /\ has_line(carts', s, p)
                 /\ line_quantity(carts', s, p) = Min(cart_quantity(s, p) + q, stock[p])
            ELSE carts' = carts /\ resp'.result = "insufficient_stock"]_vars

\* update_cart_item on a line: a quantity <= 0 deletes it, one up to the stock
\* is saved as given, one above the stock is refused and the line kept
UpdateWithinStockSaves ==
    [][\A s \in BuyerSessions, p \in Products, q \in RequestQuantities :
         (has_line(carts, s, p) /\ update_cart_item(s, p, q)) =>
            IF q <= 0 THEN ~has_line(carts', s, p)
            ELSE IF q <= stock[p]
            THEN has_line(carts', s, p) /\ line_quantity(carts', s, p) = q
            ELSE carts' = carts /\ resp'.result = "only_n_available"]_vars

\* C20: every cart line has a quantity of at least 1, whatever quantities the
\* add_to_cart and update_cart_item requests carried, and so has every OrderItem.
C20_QuantitiesPositive ==
    /\ \A s \in Sessions : \A i \in 1..Len(carts[s].items) : carts[s].items[i].quantity >= 1
    /\ \A i \in 1..Len(orders) : \A j \in 1..Len(orders[i].items) :
            orders[i].items[j].quantity >= 1

\* the requests only buyers may make
BuyerOnlyOps == {"add_to_cart", "update_cart_item", "remove_from_cart", "checkout", "add_review"}

\* the answers that turn a caller away
Rejections == {"login_required", "login_redirect", "access_denied", "buyers_only"}

\* C14: a buyer-only request from a caller who is not logged in or is no buyer
\* is turned away and changes no cart, cart item, order, order item, review,
\* stock or price.
C14_BuyerOnlyRejected ==
    [][(resp'.op \in BuyerOnlyOps /\ resp'.session \in OtherSessions) =>
          /\ resp'.result \in Rejections
          /\ UNCHANGED <<stock, price, carts, orders, reviews>>]_vars

\* the vendor was turned away from checkout while the buyer has an order, a
\* review and a cart with a line
C14_Witness ==
    /\ resp.op = "checkout" /\ resp.session \in VendorSessions
    /\ resp.result = "access_denied"
    /\ orders # <<>> /\ reviews # <<>> /\ carts["s1"].items # <<>>

\* the anonymous visitor was turned away from add_to_cart likewise
AnonymousTurnedAway ==
    /\ resp.op = "add_to_cart" /\ resp.session \in AnonymousSessions
    /\ resp.result = "login_required"
    /\ orders # <<>> /\ carts["s1"].items # <<>>

\* C15: the owner of every store is a vendor, and a request of a user who is
\* not a store's owner leaves the store's row and its products as they were:
\* none is edited, deleted or moved. A checkout is a sale, not an edit: it may
\* take units off the stock, and nothing else.
C15_OnlyOwnerManages ==
    /\ [](\A st \in StoreIds : stores[st].exists => is_vendor(stores[st].vendor))
    /\ [][\A st \in StoreIds :
            (stores[st].exists /\ stores[st].vendor # request_user(resp'.session)) =>
                /\ stores'[st] = stores[st]
                /\ \A p \in store_products(st) :
                      /\ product_store'[p] = st
                      /\ price'[p] = price[p]
                      /\ resp'.op = "checkout" \/ stock'[p] = stock[p]]_vars

\* the second vendor, who has a store of their own, asked to delete the first
\* vendor's store, which has a product, and was answered that there is none
C15_Witness ==
    /\ resp.op = "delete_store" /\ resp.session \in RivalSessions
    /\ resp.result = "not_found"
    /\ stores["st1"].exists /\ stores["st1"].vendor = "v1"
    /\ stores["st2"].exists /\ stores["st2"].vendor = "v2"
    /\ store_products("st1") # {}

\* a store was deleted with its product, the cart line of the product going along
StoreDeletedWithProducts ==
    /\ resp.op = "delete_store" /\ resp.result = "deleted"
    /\ \E p \in Products : ~product_exists(p)

\* a product with an order item was kept from deletion
ProductProtected == resp.op = "delete_product" /\ resp.result = "protected"

\* C16: cart_add(p) raises the session cart's count of p by one (to 1 when p
\* was not in it), cart_remove(p) takes p's entry out whatever its count (and
\* changes nothing when p was not in it), and both leave every other entry of
\* every session cart as it was.
C16_SessionCartAddRemove ==
    [][(resp'.op \in {"cart_add", "cart_remove"}) =>
          LET s == resp'.session
              p == resp'.product
          IN /\ session_cart'[s][p] =
                    IF resp'.op = "cart_add" THEN session_cart[s][p] + 1 ELSE 0
             /\ \A s2 \in Sessions, p2 \in Products :
                    (s2 # s \/ p2 # p) => session_cart'[s2][p2] = session_cart[s2][p2]]_vars

\* a product already in the cart was added again, another product being in the cart
C16_Witness ==
    /\ resp.op = "cart_add"
    /\ session_cart[resp.session][resp.product] = 2
    /\ \E p2 \in Products : p2 # resp.product /\ session_cart[resp.session][p2] >= 1

\* a product was removed from the cart, another product staying in it
CartRemoveServed ==
    /\ resp.op = "cart_remove"
    /\ session_cart[resp.session][resp.product] = 0
    /\ \E p2 \in Products : session_cart[resp.session][p2] = 2

\* the sum of price * count over the products of a session cart
cart_value(cart) ==
    SeqSum([i \in 1..Len(ProductOrder) |->
                simple_price(ProductOrder[i]) * cart[ProductOrder[i]]])

\* C17: a checkout of a logged-in user whose session cart is not empty creates
\* one Order of that user, its total the sum of price * count over the cart,
\* with one OrderItem per product of the cart that carries the cart's count and
\* the product's price, and empties the session cart.
C17_SimpleCheckoutCreatesOrder ==
    [][(/\ resp'.op = "simple_checkout"
        /\ is_authenticated(request_user(resp'.session))
        /\ \E p \in Products : session_cart[resp'.session][p] > 0) =>
          LET s == resp'.session
              cart == session_cart[s]
              o == simple_orders'[Len(simple_orders')]
          IN /\ Len(simple_orders') = Len(simple_orders) + 1
             /\ SubSeq(simple_orders', 1, Len(simple_orders)) = simple_orders
             /\ o.user = request_user(s)
             /\ o.total = cart_value(cart)
             /\ \A p \in Products :
                   Cardinality({j \in 1..Len(o.items) : o.items[j].product = p})
                        = IF cart[p] > 0 THEN 1 ELSE 0
             /\ \A j \in 1..Len(o.items) :
                   /\ o.items[j].quantity = cart[o.items[j].product]
                   /\ o.items[j].price = simple_price(o.items[j].product)
             /\ \A p \in Products : session_cart'[s][p] = 0]_vars

\* an order of two products, one of them twice in the cart, was created
C17_Witness ==
    /\ resp.op = "simple_checkout" /\ resp.result = "order"
    /\ LET o == simple_orders[Len(simple_orders)]
       IN Len(o.items) = 2 /\ o.items[1].quantity = 2 /\ o.total = 4

\* C18: a registration POST with a username no user has and two matching
\* passwords, and no other field, creates the user, logs the session in as
\* that user and is answered with a redirect.
C18_RegistrationCreatesUser ==
    [][(/\ resp'.op = "register"
        /\ user_email[resp'.username] = NoUser
        /\ resp'.passwords_match
        /\ resp'.email = NoEmail) =>
          /\ user_email'[resp'.username] # NoUser
          /\ session_login'[resp'.session] = resp'.username
          /\ resp'.result = "redirect_home"]_vars

\* with the email field sent and no user having the address, the same POST
\* does create the user, log them in and redirect
RegistrationWithEmail ==
    [][(/\ resp'.op = "register"
        /\ user_email[resp'.username] = NoUser
        /\ resp'.passwords_match
        /\ resp'.email # NoEmail
        /\ \A u \in Usernames : user_email[u] # resp'.email) =>
          /\ user_email'[resp'.username] = resp'.email
          /\ session_login'[resp'.session] = resp'.username
          /\ resp'.result = "redirect_home"]_vars

\* the position of the first line of session s's cart that asks for more than
\* the product's stock; 0 when every line is covered
first_short_line(s) ==
    LET items == carts[s].items
        short == {i \in 1..Len(items) : items[i].quantity > stock[items[i].product]}
    IN IF short = {} THEN 0 ELSE CHOOSE i \in short : \A j \in short : i <= j

\* C19: a checkout POST with an address whose cart's line N is the first that
\* asks for more than the stock ends with the insufficient-stock error, and
\* leaves behind the new Order with the OrderItems of lines 1..N-1, the stock of
\* those lines' products lowered by their quantities, every other stock and
\* every earlier order unchanged, and the cart with all its lines.
C19_PartialCheckoutPersists ==
    [][\A s \in BuyerSessions :
        (/\ CheckoutServed(s) /\ resp'.method = "POST" /\ resp'.address # NoAddress
         /\ first_short_line(s) # 0) =>
          LET items == carts[s].items
              n == first_short_line(s)
              o == orders'[Len(orders')]
          IN /\ resp'.result = "insufficient_stock"
             /\ Len(orders') = Len(orders) + 1
             /\ SubSeq(orders', 1, Len(orders)) = orders
             /\ o.buyer = request_user(s)
             /\ o.items = [i \in 1..(n - 1) |->
                              [product |-> items[i].product, quantity |-> items[i].quantity,
                               price_at_purchase |-> price[items[i].product]]]
             /\ \A p \in Products :
                   stock'[p] = stock[p] - SeqSum([i \in 1..(n - 1) |->
                                    IF items[i].product = p THEN items[i].quantity ELSE 0])
             /\ carts' = carts]_vars

\* a checkout stopped at its second line: the order holds the first line's
\* OrderItem, the first product's stock is taken, the cart still has both lines
C19_Witness ==
    /\ resp.op = "checkout" /\ resp.result = "insufficient_stock"
    /\ Len(carts[resp.session].items) = 2
    /\ Len(orders[Len(orders)].items) = 1
    /\ orders[Len(orders)].items[1].product = carts[resp.session].items[1].product
    /\ stock[carts[resp.session].items[1].product] = MaxStock - carts[resp.session].items[1].quantity

\* the stock Init gives product p, before any request
initial_stock(p) == MaxStock

\* C21: with the requests served one at a time and no vendor editing stock,
\* stock is conserved: in every reachable state, for every product, the initial
\* stock equals quantity_in_stock plus the quantities of all its OrderItems,
\* those a checkout refused partway left behind included.
C21_StockConserved ==
    \A p \in Products : initial_stock(p) = stock[p] + sold(p)

\* C21's case: a checkout was refused at a later line after an earlier line's
\* units had been moved from the stock into an OrderItem of the Order it left
C21_Witness ==
    /\ resp.op = "checkout" /\ resp.result = "insufficient_stock"
    /\ Len(orders[Len(orders)].items) >= 1
    /\ \E p \in Products : sold(p) = MaxStock /\ stock[p] = 0

\* C22: every Order that exists once a checkout request has finished has at
\* least one OrderItem; a checkout refused at its first line for lack of stock,
\* and every retry of it on the cart that stays, leaves no Order without items.
C22_EveryOrderHasItems ==
    \A i \in 1..Len(orders) : Len(orders[i].items) >= 1

\* what the handler does instead: a checkout refused at its first line adds one
\* Order without items, carrying the cart's total, and keeps the cart
RefusedAtFirstLineLeavesEmptyOrder ==
    [][\A s \in BuyerSessions :
        (/\ CheckoutServed(s) /\ resp'.result = "insufficient_stock"
         /\ first_short_line(s) = 1)
        => /\ Len(orders') = Len(orders) + 1
           /\ orders'[Len(orders')].items = <<>>
           /\ orders'[Len(orders')].total_amount
                  = get_total_price(price, cart_items_of(carts, s))
           /\ carts' = carts /\ stock' = stock]_vars

\* the session cart of the minimal app holds no product
session_cart_empty(s) == \A p \in Products : session_cart[s][p] = 0

\* C23: a cart is turned into an order at most once. After a checkout that
\* succeeded the session's cart is gone (full app: no Cart row; minimal app: the
\* session cart is {}), and a checkout request repeated at once in the same
\* session, no add_to_cart in between, is rejected as an empty cart: it
\* creates no second Order and takes no stock.
C23_RepeatedCheckoutRejected ==
    /\ [](/\ (resp.op = "checkout" /\ resp.result = "order_placed")
               => carts[resp.session] = NoCart
          /\ (resp.op = "simple_checkout" /\ resp.result = "order")
               => session_cart_empty(resp.session))
    /\ [][/\ (/\ resp.op = "checkout" /\ resp.result = "order_placed"
              /\ CheckoutServed(resp.session))
             => /\ resp'.result = "empty_cart"
                /\ orders' = orders /\ stock' = stock /\ carts' = carts
          /\ (/\ resp.op = "simple_checkout" /\ resp.result = "order"
              /\ resp'.op = "simple_checkout" /\ resp'.session = resp.session)
             => /\ resp'.result = "redirect_home"
                /\ simple_orders' = simple_orders
                /\ session_cart' = session_cart]_vars

\* C23's case: a checkout of the full app was rejected as an empty cart in a
\* session whose buyer has the Order of an earlier checkout, its units off the
\* stock, and the minimal app has turned a session cart into an Order as well
C23_Witness ==
    /\ resp.op = "checkout" /\ resp.result = "empty_cart"
    /\ \E i \in 1..Len(orders) :
          orders[i].buyer = request_user(resp.session) /\ Len(orders[i].items) >= 1
    /\ \E p \in Products : stock[p] < initial_stock(p)
    /\ Len(simple_orders) >= 1 /\ session_cart_empty("s1")

\* the same in the minimal app: checkout was answered with the redirect home in
\* the session whose user has an Order
SimpleRepeatRejected ==
    /\ resp.op = "simple_checkout" /\ resp.result = "redirect_home"
    /\ \E i \in 1..Len(simple_orders) : simple_orders[i].user = request_user(resp.session)

\* whatever came before, a checkout in a session without cart lines is rejected
\* and changes no row
NoCartNoOrder ==
    [][/\ \A s \in BuyerSessions :
              (CheckoutServed(s) /\ carts[s].items = <<>>)
                => /\ resp'.result = "empty_cart"
                   /\ orders' = orders /\ stock' = stock /\ carts' = carts
       /\ (resp'.op = "simple_checkout" /\ session_cart_empty(resp'.session))
              => /\ resp'.result = "redirect_home"
                 /\ simple_orders' = simple_orders]_vars
====
